---------------------------- MODULE Spec2Model ----------------------------
(***************************************************************************)
(* Core-scheduling cookie management: the two command line front ends     *)
(* coresched (src/libs/blkid/bin/blkid.c, lines 560-928) and coreset      *)
(* (src/schedutils/coreset.c), run against a kernel that keeps one cookie  *)
(* per task.  One behaviour is one invocation of one of the two programs:  *)
(* the command line is drawn in Init and every prctl(2) call is one step.  *)
(* Spec is the invocation alone; in SpecEnv other parties change cookies   *)
(* between the controller's steps.                                         *)
(***************************************************************************)
EXTENDS Integers, Sequences, FiniteSets, TLC

(* ------------------------------ bounds --------------------------------- *)

\* Number of tasks on the host; task 1 is the invoking controller.
NumTasks == 3

\* Number of cookie changes made by other parties during one invocation.
MaxEnv == 1

(* ------------------------- program constants --------------------------- *)

PR_SCHED_CORE_GET == 0
PR_SCHED_CORE_CREATE == 1
PR_SCHED_CORE_SHARE_TO == 2
PR_SCHED_CORE_SHARE_FROM == 3

PR_SCHED_CORE_SCOPE_THREAD == 0
PR_SCHED_CORE_SCOPE_THREAD_GROUP == 1
PR_SCHED_CORE_SCOPE_PROCESS_GROUP == 2

EXIT_SUCCESS == 0
EXIT_FAILURE == 1

\* Mutant: the missing feature is reported with the general failure status
ENOTSUP_as_failure == EXIT_FAILURE

\* errx(ENOTSUP, ...) of coresched's main()
ENOTSUP == 95

\* errx(ENODATA, ...) of coresched's main()
ENODATA == 61

\* errexec(): EX_EXEC_FAILED
EX_EXEC_FAILED == 126

\* enum sched_core_cmd (coresched) and enum cmd_type (coreset)
SCHED_CORE_CMD_GET == "GET"
SCHED_CORE_CMD_NEW == "NEW"
SCHED_CORE_CMD_COPY == "COPY"
CORE_SHOW == "SHOW"
CORE_CREATE == "CREATE"
CORE_PUSH == "PUSH"
CORE_COPY == "COPY"

(* ------------------------------ the host ------------------------------- *)

Tasks == 1..NumTasks

\* getpid() of the controller
Self == 1

\* Thread group of a task: tasks 2 and 3 are threads of one process, every
\* other task is a single-threaded process.
Tgid(t) == IF t = 3 THEN 2 ELSE t

\* Process group of a task: tasks 1..3 were started from one shell job, any
\* further task leads a group of its own.
Pgid(t) == IF t <= 3 THEN 1 ELSE t

Scopes == {PR_SCHED_CORE_SCOPE_THREAD, PR_SCHED_CORE_SCOPE_THREAD_GROUP,
           PR_SCHED_CORE_SCOPE_PROCESS_GROUP}

\* prctl's pid argument: 0 names the calling task
Target(pid) == IF pid = 0 THEN Self ELSE pid

\* The tasks a CREATE or SHARE_TO on pid with the given scope applies to.
ScopeGroup(pid, scope) ==
    IF scope = PR_SCHED_CORE_SCOPE_THREAD THEN {Target(pid)}
    ELSE IF scope = PR_SCHED_CORE_SCOPE_THREAD_GROUP
         THEN {u \in Tasks : Tgid(u) = Tgid(Target(pid))}
         ELSE {u \in Tasks : Pgid(u) = Pgid(Target(pid))}

\* PR_SCHED_CORE_CREATE: a unique cookie for every task of the scope group
KernelCreate(ck, pid, scope, fresh) ==
    [u \in Tasks |-> IF u \in ScopeGroup(pid, scope) THEN fresh ELSE ck[u]]

\* PR_SCHED_CORE_SHARE_FROM: the caller adopts pid's cookie (which may be 0)
KernelShareFrom(ck, pid) == [ck EXCEPT ![Self] = ck[Target(pid)]]

\* PR_SCHED_CORE_SHARE_TO: the caller's cookie is put on pid's scope group
KernelShareTo(ck, pid, scope) ==
    [u \in Tasks |-> IF u \in ScopeGroup(pid, scope) THEN ck[Self] ELSE ck[u]]

\* What one prctl(PR_SCHED_CORE, ...) call may return: "ok", or the errno of
\* a failure.  A kernel without the feature answers EINVAL to everything, a
\* pid that names no task gives ESRCH, and any call may be refused (EPERM).
KernelResults(sup, pid, scope) ==
    IF ~sup THEN {"EINVAL"}
    ELSE IF Target(pid) \notin Tasks THEN {"ESRCH"}
    ELSE IF scope \notin Scopes THEN {"EINVAL"}
    ELSE {"ok", "EPERM"}

(* --------------------------- command lines ----------------------------- *)

Unset == "unset"

\* Values an operator may type for a task identifier
Pids == (-1)..NumTasks

TypeStrings == {"pid", "tgid", "pgid", "bogus"}

ScopeInts == (-1)..3

\* coresched [-n] [-c] [-p PID] [-d PID] [-t TYPE] [-v] [PROGRAM...]
\* (an option that is not given leaves its field of struct args at 0)
CoreschedLines ==
    {l \in [prog : {"coresched"}, new : BOOLEAN, copy : BOOLEAN, to : {FALSE},
            pid : Pids, destopt : BOOLEAN, dest : Pids,
            type : {Unset} \cup TypeStrings, scope : {0},
            verbose : BOOLEAN, command : BOOLEAN] :
        ~l.destopt => l.dest = 0}

\* coreset [-c] [-n] [-t] [-p PID] [-s SCOPE] [PROGRAM...]
CoresetLines ==
    [prog : {"coreset"}, new : BOOLEAN, copy : BOOLEAN, to : BOOLEAN,
     pid : Pids, destopt : {FALSE}, dest : {0}, type : {Unset},
     scope : ScopeInts, verbose : {FALSE}, command : BOOLEAN]

CommandLines == CoreschedLines \cup CoresetLines

(* ------------------------ coresched: validation ------------------------ *)

\* excl[] of parse_arguments: { 'c', 'n' } and { 'd', 'n' }
excl == {{"copy", "new"}, {"dest", "new"}}

GivenOptions(l) ==
    {o \in {"copy", "new", "dest"} :
        \/ o = "copy" /\ l.copy
        \/ o = "new" /\ l.new
        \/ o = "dest" /\ l.destopt}

\* err_exclusive_options(): TRUE when two options of one excl[] group were
\* given, which ends the program with EXIT_FAILURE.
err_exclusive_options(l) == \E g \in excl : g \subseteq GivenOptions(l)

\* strtopid_or_err(): TRUE when the string is refused (a negative
\* identifier), which ends the program with EXIT_FAILURE.
strtopid_or_err(p) == p < 0

\* parse_core_sched_type(): the scope, or -1 for bad_usage()
parse_core_sched_type(str) ==
    IF str = "pid" THEN PR_SCHED_CORE_SCOPE_THREAD
    ELSE IF str = "tgid" THEN PR_SCHED_CORE_SCOPE_THREAD_GROUP
    ELSE IF str = "pgid" THEN PR_SCHED_CORE_SCOPE_PROCESS_GROUP
    ELSE -1

\* Mutant: main() initialises args.type to PR_SCHED_CORE_SCOPE_THREAD
CoreschedLoopArgs_thread(l) ==
    [pid |-> l.pid,
     dest |-> l.dest,
     type |-> IF l.type = Unset THEN PR_SCHED_CORE_SCOPE_THREAD
              ELSE parse_core_sched_type(l.type),
     cmd |-> IF l.copy THEN SCHED_CORE_CMD_COPY
             ELSE IF l.new THEN SCHED_CORE_CMD_NEW
             ELSE SCHED_CORE_CMD_GET,
     exec |-> 0]

\* struct args as the getopt loop of parse_arguments leaves it, starting
\* from main's initialisation (cmd GET, type THREAD_GROUP).
CoreschedLoopArgs(l) ==
    [pid |-> l.pid,
     dest |-> l.dest,
     type |-> IF l.type = Unset THEN PR_SCHED_CORE_SCOPE_THREAD_GROUP
              ELSE parse_core_sched_type(l.type),
     cmd |-> IF l.copy THEN SCHED_CORE_CMD_COPY
             ELSE IF l.new THEN SCHED_CORE_CMD_NEW
             ELSE SCHED_CORE_CMD_GET,
     exec |-> 0]

\* The getopt loop ends the program: exclusive options, a refused task
\* identifier, or a type that is none of pid/tgid/pgid.
CoreschedLoopFails(l) ==
    \/ err_exclusive_options(l)
    \/ strtopid_or_err(l.pid)
    \/ l.destopt /\ strtopid_or_err(l.dest)
    \/ l.type # Unset /\ parse_core_sched_type(l.type) = -1

\* Mutant: the check for --copy with both --dest and a command is missing
CoreschedCheckFails_noboth(a, command) ==
    \/ a.cmd = SCHED_CORE_CMD_COPY /\ a.pid = 0
    \/ /\ command
       /\ \/ a.cmd = SCHED_CORE_CMD_GET
          \/ a.cmd = SCHED_CORE_CMD_NEW /\ a.pid # 0
    \/ /\ ~command
       /\ \/ a.cmd = SCHED_CORE_CMD_NEW /\ a.pid = 0
          \/ a.cmd = SCHED_CORE_CMD_COPY /\ a.dest = 0

\* The checks of parse_arguments after the loop (each one a bad_usage()).
CoreschedCheckFails(a, command) ==
    \/ a.cmd = SCHED_CORE_CMD_COPY /\ a.pid = 0
    \/ /\ command
       /\ \/ a.cmd = SCHED_CORE_CMD_GET
          \/ a.cmd = SCHED_CORE_CMD_NEW /\ a.pid # 0
          \/ a.cmd = SCHED_CORE_CMD_COPY /\ a.dest # 0
    \/ /\ ~command
       /\ \/ a.cmd = SCHED_CORE_CMD_NEW /\ a.pid = 0
          \/ a.cmd = SCHED_CORE_CMD_COPY /\ a.dest = 0

\* parse_arguments(): usage is TRUE when it ends the program with a usage
\* error, else args is the request it leaves to main.
parse_arguments(l) ==
    LET a == CoreschedLoopArgs(l) IN
    [usage |-> CoreschedLoopFails(l) \/ CoreschedCheckFails(a, l.command),
     args |-> [a EXCEPT !.exec = IF l.command THEN 1 ELSE 0]]

(* ------------------------- coreset: validation ------------------------- *)

BoolInt(b) == IF b THEN 1 ELSE 0

\* First check of main: a command or a pid is needed, --copy needs a
\* command, --copy and --to need a pid.
CoresetNeedsFail(l) ==
    \/ (l.pid = 0 \/ l.copy) /\ ~l.command
    \/ (l.copy \/ l.to) /\ l.pid = 0

\* Mutant: the test for mutually exclusive commands is missing
CoresetExclusiveFail_off(l) == FALSE

\* copy + create + push > 1
CoresetExclusiveFail(l) == BoolInt(l.copy) + BoolInt(l.new) + BoolInt(l.to) > 1

\* Mutant: only the lower end of the scope range is tested
CoresetRangeFail_lower(l) ==
    \/ l.pid < 0
    \/ l.scope < PR_SCHED_CORE_SCOPE_THREAD

\* negative pid, or a scope that is none of PR_SCHED_CORE_SCOPE_*
CoresetRangeFail(l) ==
    \/ l.pid < 0
    \/ l.scope < PR_SCHED_CORE_SCOPE_THREAD
    \/ l.scope > PR_SCHED_CORE_SCOPE_PROCESS_GROUP

\* cs.cmd as main selects it
CoresetCmd(l) ==
    IF l.new THEN CORE_CREATE
    ELSE IF l.copy THEN CORE_COPY
    ELSE IF l.to THEN CORE_PUSH
    ELSE CORE_SHOW

\* Mutant: the command is kept also for create and show with a pid
CoresetDoExec_keep(l) == IF l.command THEN 1 ELSE 0

\* do_exec of main: set when a command follows the options, and cleared
\* again ("extraneous input") for create and show with a pid
CoresetDoExec(l) ==
    IF l.command /\ ~(l.pid # 0 /\ CoresetCmd(l) \in {CORE_SHOW, CORE_CREATE})
    THEN 1 ELSE 0

\* main() of coreset up to the call of do_coreset(): usage is TRUE when it
\* ends with a usage error, else args holds struct coreset and do_exec.
coreset_main_args(l) ==
    [usage |-> \/ CoresetNeedsFail(l)
               \/ CoresetExclusiveFail(l)
               \/ CoresetRangeFail(l),
     args |-> [pid |-> l.pid, dest |-> 0, type |-> l.scope,
               cmd |-> CoresetCmd(l), exec |-> CoresetDoExec(l)]]

(* ------------------------------- state --------------------------------- *)

VARIABLES
    line,        \* the command line of this invocation
    supported,   \* whether the kernel implements PR_SCHED_CORE
    cookie,      \* the kernel's cookie of every task (0: none)
    nextCookie,  \* the next cookie value the kernel hands out
    pc,          \* the controller's position
    args,        \* struct args / struct coreset after validation
    calls,       \* the prctl calls issued so far, in order
    out,         \* the messages written so far, in order
    outcome,     \* how the invocation ended ("none" while it runs)
    exitCode,    \* the exit status (-1 while it runs, and after exec)
    image,       \* the program the controller's task runs
    envCount,    \* cookie changes made by other parties so far
    pre,         \* history: every task's cookie when the invocation began
    pulled,      \* history: the source's cookie at the SHARE_FROM (-1: none)
    created      \* history: the cookie made by the controller's CREATE (0: none)

vars == <<line, supported, cookie, nextCookie, pc, args, calls, out, outcome,
          exitCode, image, envCount, pre, pulled, created>>

NoArgs == [pid |-> 0, dest |-> 0, type |-> 0, cmd |-> "none", exec |-> 0]

Init ==
    /\ line \in CommandLines
    /\ supported \in BOOLEAN
    /\ cookie \in [Tasks -> 0..1]
    /\ nextCookie = 2
    /\ pc = "parse"
    /\ args = NoArgs
    /\ calls = <<>>
    /\ out = <<>>
    /\ outcome = "none"
    /\ exitCode = -1
    /\ image = line.prog
    /\ envCount = 0
    /\ pre = cookie
    /\ pulled = -1
    /\ created = 0

(* ------------------------------ helpers -------------------------------- *)

Call(op, pid, scope, res) == [op |-> op, pid |-> pid, scope |-> scope, res |-> res]

Msg(text, pid, val) == [text |-> text, pid |-> pid, val |-> val]

\* exit(code) after writing the messages msgs
Exit(class, code, msgs) ==
    /\ pc' = "done"
    /\ outcome' = class
    /\ exitCode' = code
    /\ out' = out \o msgs

\* the controller goes on to position next after writing msgs
Goto(next, msgs) ==
    /\ pc' = next
    /\ out' = out \o msgs
    /\ UNCHANGED <<outcome, exitCode>>

\* go on to next, where "return" is main's return with EXIT_SUCCESS
Continue(next, msgs) ==
    IF next = "return" THEN Exit("success", EXIT_SUCCESS, msgs)
    ELSE Goto(next, msgs)

(* --------------------------- coresched: main --------------------------- *)

\* Mutant: main() probes the kernel before it parses the arguments
CoreschedParse_after_probe ==
    /\ pc = "parse"
    /\ line.prog = "coresched"
    /\ \E res \in KernelResults(supported, Self, PR_SCHED_CORE_SCOPE_THREAD) :
        calls' = Append(calls, Call(PR_SCHED_CORE_GET, Self,
                                    PR_SCHED_CORE_SCOPE_THREAD, res))
    /\ LET r == parse_arguments(line) IN
       IF r.usage
       THEN /\ Exit("usage", EXIT_FAILURE, <<Msg("bad usage", 0, 0)>>)
            /\ UNCHANGED args
       ELSE /\ Goto("probe", <<>>)
            /\ args' = r.args
    /\ UNCHANGED <<line, supported, cookie, nextCookie, image,
                   envCount, pre, pulled, created>>

\* main(): parse_arguments(), which ends the program on a usage error
CoreschedParse ==
    /\ pc = "parse"
    /\ line.prog = "coresched"
    /\ LET r == parse_arguments(line) IN
       IF r.usage
       THEN /\ Exit("usage", EXIT_FAILURE, <<Msg("bad usage", 0, 0)>>)
            /\ UNCHANGED args
       ELSE /\ Goto("probe", <<>>)
            /\ args' = r.args
    /\ UNCHANGED <<line, supported, cookie, nextCookie, calls, image,
                   envCount, pre, pulled, created>>

\* Mutant: core_sched_exec_with_cookie() without the pull of the source
ExecWithCookieEntry_nopull(a) == IF a.exec = 0 THEN "help" ELSE "create"

\* Mutant: core_sched_exec_with_cookie() goes straight to the execvp()
ExecWithCookieEntry_noset(a) == IF a.exec = 0 THEN "help" ELSE "exec"

\* core_sched_exec_with_cookie(): where it starts
ExecWithCookieEntry(a) ==
    IF a.exec = 0 THEN "help"
    ELSE IF a.pid # 0 THEN "pull" ELSE "create"

\* Mutant: case SCHED_CORE_CMD_GET of main() falls into the create
Dispatch_get_creates(a) ==
    IF a.cmd = SCHED_CORE_CMD_GET
    THEN IF a.pid # 0 THEN "create" ELSE "help"
    ELSE IF a.cmd = SCHED_CORE_CMD_NEW
    THEN IF a.pid # 0 THEN "create" ELSE ExecWithCookieEntry(a)
    ELSE IF a.dest # 0 THEN "pull" ELSE ExecWithCookieEntry(a)

\* Mutant: core_sched_copy_cookie() starts with the push
Dispatch_push_first(a) ==
    IF a.cmd = SCHED_CORE_CMD_GET
    THEN IF a.pid # 0 THEN "get" ELSE "help"
    ELSE IF a.cmd = SCHED_CORE_CMD_NEW
    THEN IF a.pid # 0 THEN "create" ELSE ExecWithCookieEntry(a)
    ELSE IF a.dest # 0 THEN "push" ELSE ExecWithCookieEntry(a)

\* The switch of main(): the first position of the selected command
Dispatch(a) ==
    IF a.cmd = SCHED_CORE_CMD_GET
    THEN IF a.pid # 0 THEN "get" ELSE "help"
    ELSE IF a.cmd = SCHED_CORE_CMD_NEW
    THEN IF a.pid # 0 THEN "create" ELSE ExecWithCookieEntry(a)
    ELSE IF a.dest # 0 THEN "pull" ELSE ExecWithCookieEntry(a)

\* The invocation ends by replacing its image (core_sched_exec_with_cookie)
CoreschedLaunch(a) ==
    \/ a.cmd = SCHED_CORE_CMD_NEW /\ a.pid = 0
    \/ a.cmd = SCHED_CORE_CMD_COPY /\ a.dest = 0

\* Position after core_sched_get_and_print_cookie()
AfterReport(a) == IF CoreschedLaunch(a) THEN "exec" ELSE "return"

\* Mutant: the re-read is made also when --verbose was not given
ReportOr_always(a, verbose) == "report"

\* Mutant: the verbose re-read is left out when the controller holds no cookie
ReportOr_if_cookie(a, verbose) ==
    IF verbose /\ cookie[Self] # 0 THEN "report" ELSE AfterReport(a)

\* Position after a create or a launch-mode pull: the verbose report, or
\* what follows it
ReportOr(a, verbose) == IF verbose THEN "report" ELSE AfterReport(a)

\* is_core_sched_supported() and the test of it in main(), then the switch
is_core_sched_supported ==
    /\ pc = "probe"
    /\ \E res \in KernelResults(supported, Self, PR_SCHED_CORE_SCOPE_THREAD) :
        /\ calls' = Append(calls, Call(PR_SCHED_CORE_GET, Self,
                                       PR_SCHED_CORE_SCOPE_THREAD, res))
        /\ IF res = "EINVAL"
           THEN Exit("unsupported", ENOTSUP,
                     <<Msg("Does your kernel support CONFIG_SCHED_CORE?", 0, 0)>>)
           ELSE IF Dispatch(args) = "help"
           THEN Exit("help", EXIT_SUCCESS, <<Msg("usage", 0, 0)>>)
           ELSE Goto(Dispatch(args), <<>>)
    /\ UNCHANGED <<line, supported, cookie, nextCookie, args, image,
                   envCount, pre, pulled, created>>

\* Mutant: a failed read is not noticed, and the initial value 0 of the
\* local cookie is used as the task's cookie
core_sched_get_cookie_unchecked ==
    /\ pc = "get"
    /\ \E res \in KernelResults(supported, args.pid, PR_SCHED_CORE_SCOPE_THREAD) :
        /\ calls' = Append(calls, Call(PR_SCHED_CORE_GET, args.pid,
                                       PR_SCHED_CORE_SCOPE_THREAD, res))
        /\ IF res = "ok" /\ cookie[Target(args.pid)] # 0
           THEN Exit("success", EXIT_SUCCESS,
                     <<Msg("cookie of pid is", args.pid, cookie[Target(args.pid)])>>)
           ELSE Exit("nocookie", ENODATA,
                     <<Msg("pid doesn't have a core scheduling cookie", args.pid, -1)>>)
    /\ UNCHANGED <<line, supported, cookie, nextCookie, args, image,
                   envCount, pre, pulled, created>>

\* case SCHED_CORE_CMD_GET of main(): core_sched_get_cookie(args.pid)
core_sched_get_cookie ==
    /\ pc = "get"
    /\ \E res \in KernelResults(supported, args.pid, PR_SCHED_CORE_SCOPE_THREAD) :
        /\ calls' = Append(calls, Call(PR_SCHED_CORE_GET, args.pid,
                                       PR_SCHED_CORE_SCOPE_THREAD, res))
        /\ IF res # "ok"
           THEN Exit("kernel", EXIT_FAILURE,
                     <<Msg("Failed to get cookie from PID", args.pid, -1)>>)
           ELSE IF cookie[Target(args.pid)] # 0
           THEN Exit("success", EXIT_SUCCESS,
                     <<Msg("cookie of pid is", args.pid, cookie[Target(args.pid)])>>)
           ELSE Exit("nocookie", ENODATA,
                     <<Msg("pid doesn't have a core scheduling cookie", args.pid, -1)>>)
    /\ UNCHANGED <<line, supported, cookie, nextCookie, args, image,
                   envCount, pre, pulled, created>>

\* Mutant: the cookie is always created on the controller
CreatePid_self(a) == Self

\* The pid core_sched_create_cookie() is called with: args.pid in main(),
\* getpid() in core_sched_exec_with_cookie()
CreatePid(a) == IF a.pid # 0 THEN a.pid ELSE Self

\* core_sched_create_cookie(pid, args.type)
core_sched_create_cookie ==
    /\ pc = "create"
    /\ \E res \in KernelResults(supported, CreatePid(args), args.type) :
        /\ calls' = Append(calls, Call(PR_SCHED_CORE_CREATE, CreatePid(args),
                                       args.type, res))
        /\ IF res # "ok"
           THEN /\ Exit("kernel", EXIT_FAILURE,
                        <<Msg("Failed to create cookie for PID", CreatePid(args), -1)>>)
                /\ UNCHANGED <<cookie, nextCookie, created>>
           ELSE /\ cookie' = KernelCreate(cookie, CreatePid(args), args.type, nextCookie)
                /\ created' = nextCookie
                /\ nextCookie' = nextCookie + 1
                /\ Continue(ReportOr(args, line.verbose), <<>>)
    /\ UNCHANGED <<line, supported, args, image, envCount, pre, pulled>>

\* Mutant: the pull reads the destination of the copy
PullPid_dest(a) == IF a.dest # 0 THEN a.dest ELSE a.pid

\* core_sched_copy_cookie(args.pid, args.dest, args.type): the task the pull
\* reads from, and the task the push writes to
PullPid(a) == a.pid

\* Mutant: the push is issued on the calling task
PushPid_self(a) == Self

\* Mutant: the two pids of core_sched_copy_cookie() swapped at the push
PushPid_swapped(a) == a.pid

PushPid(a) == a.dest

\* core_sched_pull_cookie(from), from core_sched_copy_cookie() or from
\* core_sched_exec_with_cookie()
core_sched_pull_cookie ==
    /\ pc = "pull"
    /\ \E res \in KernelResults(supported, PullPid(args), PR_SCHED_CORE_SCOPE_THREAD) :
        /\ calls' = Append(calls, Call(PR_SCHED_CORE_SHARE_FROM, PullPid(args),
                                       PR_SCHED_CORE_SCOPE_THREAD, res))
        /\ IF res # "ok"
           THEN /\ Exit("kernel", EXIT_FAILURE,
                        <<Msg("Failed to pull cookie from PID", PullPid(args), -1)>>)
                /\ UNCHANGED <<cookie, pulled>>
           ELSE /\ cookie' = KernelShareFrom(cookie, PullPid(args))
                /\ pulled' = cookie[Target(PullPid(args))]
                /\ Continue(IF args.dest # 0 THEN "push"
                            ELSE ReportOr(args, line.verbose), <<>>)
    /\ UNCHANGED <<line, supported, nextCookie, args, image, envCount, pre,
                   created>>

\* core_sched_push_cookie(to, to_type) of core_sched_copy_cookie()
core_sched_push_cookie ==
    /\ pc = "push"
    /\ \E res \in KernelResults(supported, PushPid(args), args.type) :
        /\ calls' = Append(calls, Call(PR_SCHED_CORE_SHARE_TO, PushPid(args),
                                       args.type, res))
        /\ IF res # "ok"
           THEN /\ Exit("kernel", EXIT_FAILURE,
                        <<Msg("Failed to push cookie to PID", PushPid(args), -1)>>)
                /\ UNCHANGED cookie
           ELSE /\ cookie' = KernelShareTo(cookie, PushPid(args), args.type)
                /\ Continue(IF line.verbose THEN "copied" ELSE "return", <<>>)
    /\ UNCHANGED <<line, supported, nextCookie, args, image, envCount, pre,
                   pulled, created>>

\* The verbose report of core_sched_copy_cookie(): reads the source again
core_sched_copy_cookie_report ==
    /\ pc = "copied"
    /\ \E res \in KernelResults(supported, args.pid, PR_SCHED_CORE_SCOPE_THREAD) :
        /\ calls' = Append(calls, Call(PR_SCHED_CORE_GET, args.pid,
                                       PR_SCHED_CORE_SCOPE_THREAD, res))
        /\ IF res # "ok"
           THEN Exit("kernel", EXIT_FAILURE,
                     <<Msg("Failed to get cookie from PID", args.pid, -1)>>)
           ELSE Exit("success", EXIT_SUCCESS,
                     <<Msg("copied cookie from PID to PID", args.pid,
                           cookie[Target(args.pid)])>>)
    /\ UNCHANGED <<line, supported, cookie, nextCookie, args, image,
                   envCount, pre, pulled, created>>

\* The pid core_sched_get_and_print_cookie() is called with: args.pid in
\* main() and after the launch-mode pull, getpid() after the launch-mode create
ReportPid(a) == IF a.pid # 0 THEN a.pid ELSE Self

\* core_sched_get_and_print_cookie(pid) when verbose
core_sched_get_and_print_cookie ==
    /\ pc = "report"
    /\ \E res \in KernelResults(supported, ReportPid(args), PR_SCHED_CORE_SCOPE_THREAD) :
        /\ calls' = Append(calls, Call(PR_SCHED_CORE_GET, ReportPid(args),
                                       PR_SCHED_CORE_SCOPE_THREAD, res))
        /\ IF res # "ok"
           THEN Exit("kernel", EXIT_FAILURE,
                     <<Msg("Failed to get cookie from PID", ReportPid(args), -1)>>)
           ELSE Continue(AfterReport(args),
                         <<Msg("set cookie of PID to", ReportPid(args),
                               cookie[Target(ReportPid(args))])>>)
    /\ UNCHANGED <<line, supported, cookie, nextCookie, args, image,
                   envCount, pre, pulled, created>>

(* ---------------------------- coreset: main --------------------------- *)

\* main(): the option checks, which end the program on a usage error
CoresetParse ==
    /\ pc = "parse"
    /\ line.prog = "coreset"
    /\ LET r == coreset_main_args(line) IN
       IF r.usage
       THEN /\ Exit("usage", EXIT_FAILURE, <<Msg("bad usage", 0, 0)>>)
            /\ UNCHANGED args
       ELSE /\ Goto("get1", <<>>)
            /\ args' = r.args
    /\ UNCHANGED <<line, supported, cookie, nextCookie, calls, image,
                   envCount, pre, pulled, created>>

\* Mutant: get_cookie() reads cs.pid for every command
GetCookiePid_given(cs) == cs.pid

\* The pid get_cookie() reads: with copy, the current task
GetCookiePid(cs) == IF cs.cmd = CORE_COPY THEN 0 ELSE cs.pid

\* The pid print_cookie() and err_cookie() name
LabelPid(pid) == IF pid # 0 THEN pid ELSE Self

\* After do_coreset(): execvp() of the command, or return EXIT_SUCCESS
AfterCoreset(cs) == IF cs.exec # 0 THEN "exec" ELSE "return"

\* get_cookie() and print_cookie() of do_coreset(): the first read (then the
\* switch: CORE_SHOW returns) and the re-read
get_cookie ==
    /\ pc \in {"get1", "get2"}
    /\ \E res \in KernelResults(supported, GetCookiePid(args), PR_SCHED_CORE_SCOPE_THREAD) :
        /\ calls' = Append(calls, Call(PR_SCHED_CORE_GET, GetCookiePid(args),
                                       PR_SCHED_CORE_SCOPE_THREAD, res))
        /\ IF res # "ok"
           THEN Exit("kernel", EXIT_FAILURE,
                     <<Msg("failed to get pid's core scheduling cookie",
                           LabelPid(GetCookiePid(args)), -1)>>)
           ELSE Continue(IF pc = "get1" /\ args.cmd # CORE_SHOW THEN "mutate"
                         ELSE AfterCoreset(args),
                         <<Msg(IF pc = "get1" THEN "pid's current cookie"
                               ELSE "pid's new cookie",
                               LabelPid(args.pid),
                               cookie[Target(GetCookiePid(args))])>>)
    /\ UNCHANGED <<line, supported, cookie, nextCookie, args, image,
                   envCount, pre, pulled, created>>

\* The prctl option of each command of do_coreset()'s switch
CoresetOp(cs) ==
    IF cs.cmd = CORE_CREATE THEN PR_SCHED_CORE_CREATE
    ELSE IF cs.cmd = CORE_COPY THEN PR_SCHED_CORE_SHARE_FROM
    ELSE PR_SCHED_CORE_SHARE_TO

\* Mutant: the copy passes the scope of the command line
CoresetScope_given(cs) == cs.type

\* The scope of each command of do_coreset()'s switch: forced to THREAD for
\* the copy
CoresetScope(cs) ==
    IF cs.cmd = CORE_COPY THEN PR_SCHED_CORE_SCOPE_THREAD ELSE cs.type

\* The switch of do_coreset(): create, copy (pull) or push
do_coreset ==
    /\ pc = "mutate"
    /\ \E res \in KernelResults(supported, args.pid, CoresetScope(args)) :
        /\ calls' = Append(calls, Call(CoresetOp(args), args.pid,
                                       CoresetScope(args), res))
        /\ IF res # "ok"
           THEN /\ Exit("kernel", EXIT_FAILURE,
                        <<Msg(IF args.cmd = CORE_COPY
                              THEN "failed to copy pid's core scheduling cookie"
                              ELSE "failed to set pid's core scheduling cookie",
                              LabelPid(args.pid), -1)>>)
                /\ UNCHANGED <<cookie, nextCookie, pulled, created>>
           ELSE /\ Goto("get2", <<>>)
                /\ IF args.cmd = CORE_CREATE
                   THEN /\ cookie' = KernelCreate(cookie, args.pid, args.type, nextCookie)
                        /\ created' = nextCookie
                        /\ nextCookie' = nextCookie + 1
                        /\ UNCHANGED pulled
                   ELSE IF args.cmd = CORE_COPY
                   THEN /\ cookie' = KernelShareFrom(cookie, args.pid)
                        /\ pulled' = cookie[Target(args.pid)]
                        /\ UNCHANGED <<nextCookie, created>>
                   ELSE /\ cookie' = KernelShareTo(cookie, args.pid, args.type)
                        /\ UNCHANGED <<nextCookie, pulled, created>>
    /\ UNCHANGED <<line, supported, args, image, envCount, pre>>

(* ------------------------ both programs: execvp ------------------------ *)

\* execvp(argv[0], argv): the task goes on as the command, with the cookie
\* it holds; when it fails, errexec() ends the program
execvp ==
    /\ pc = "exec"
    /\ \/ /\ image' = "command"
          /\ pc' = "done"
          /\ outcome' = "exec"
          /\ UNCHANGED <<exitCode, out>>
       \/ /\ Exit("execfail", EX_EXEC_FAILED, <<Msg("failed to execute", 0, 0)>>)
          /\ UNCHANGED image
    /\ UNCHANGED <<line, supported, cookie, nextCookie, args, calls,
                   envCount, pre, pulled, created>>

(* ---------------------------- other parties ---------------------------- *)

\* Another party clears a task's cookie or gives it a new one while the
\* controller is between two kernel calls.
EnvChange ==
    /\ pc \notin {"parse", "done"}
    /\ envCount < MaxEnv
    /\ \E t \in Tasks, fresh \in BOOLEAN :
        /\ fresh \/ cookie[t] # 0
        /\ cookie' = [cookie EXCEPT ![t] = IF fresh THEN nextCookie ELSE 0]
        /\ nextCookie' = IF fresh THEN nextCookie + 1 ELSE nextCookie
    /\ envCount' = envCount + 1
    /\ UNCHANGED <<line, supported, pc, args, calls, out, outcome, exitCode,
                   image, pre, pulled, created>>

(* ---------------------------- specification ---------------------------- *)

\* One invocation on a host where nobody else touches a cookie
Next ==
    \/ CoreschedParse
    \/ is_core_sched_supported
    \/ core_sched_get_cookie
    \/ core_sched_create_cookie
    \/ core_sched_pull_cookie
    \/ core_sched_push_cookie
    \/ core_sched_copy_cookie_report
    \/ core_sched_get_and_print_cookie
    \/ CoresetParse
    \/ get_cookie
    \/ do_coreset
    \/ execvp

Spec == Init /\ [][Next]_vars

\* One invocation while other parties change cookies between its calls
NextEnv ==
    \/ Next
    \/ EnvChange

SpecEnv == Init /\ [][NextEnv]_vars

(* ------------------------------- claims -------------------------------- *)

\* Some call of the given prctl option succeeded
Succeeded(op) == \E i \in DOMAIN calls : calls[i].op = op /\ calls[i].res = "ok"

\* The request passed validation / was refused as a usage error
Accepted == pc # "parse" /\ outcome # "usage"

Rejected == pc # "parse" /\ outcome = "usage"

\* coresched --copy -p SRC -d DST, past validation
CopyToDest ==
    /\ line.prog = "coresched"
    /\ Accepted
    /\ args.cmd = SCHED_CORE_CMD_COPY
    /\ args.dest # 0

\* C1: coresched copy to an explicit destination: when nobody else changes a
\* cookie and the pull and the push succeed, the destination holds the cookie
\* the source held when the invocation began; a source without a cookie
\* leaves the destination without one.
C1_CopyGivesSourceCookie ==
    (CopyToDest /\ envCount = 0 /\ Succeeded(PR_SCHED_CORE_SHARE_TO)) =>
        /\ Succeeded(PR_SCHED_CORE_SHARE_FROM)
        /\ cookie[args.dest] = pre[args.pid]
        /\ (pre[args.pid] = 0 => cookie[args.dest] = 0)

\* A copy that succeeded from a source without a cookie to a destination
\* that had one
C1_Witness ==
    /\ CopyToDest /\ envCount = 0 /\ outcome = "success"
    /\ args.pid # args.dest
    /\ pre[args.pid] = 0 /\ pre[args.dest] # 0
    /\ cookie[args.dest] = 0

\* New on an existing task, past validation (either program)
NewOnTask ==
    /\ Accepted
    /\ args.pid # 0
    /\ \/ line.prog = "coresched" /\ args.cmd = SCHED_CORE_CMD_NEW
       \/ line.prog = "coreset" /\ args.cmd = CORE_CREATE

\* The messages that report a cookie read after a create
NewCookieTexts == {"set cookie of PID to", "pid's new cookie"}

\* C2: new on an existing task t, at any valid scope: when the create
\* succeeded and nobody else changes a cookie, t's cookie is non-zero and is
\* not the cookie t held before, and that is the value a following read of t
\* reports.
C2_NewCookieIsFresh ==
    (NewOnTask /\ envCount = 0 /\ Succeeded(PR_SCHED_CORE_CREATE)) =>
        /\ cookie[args.pid] # 0
        /\ cookie[args.pid] # pre[args.pid]
        /\ \A i \in DOMAIN out :
              out[i].text \in NewCookieTexts =>
                  /\ out[i].pid = args.pid
                  /\ out[i].val = cookie[args.pid]

\* A task that held a cookie got a new one at process-group scope, and the
\* re-read reported it
C2_Witness ==
    /\ NewOnTask /\ envCount = 0 /\ pc = "done"
    /\ args.type = PR_SCHED_CORE_SCOPE_PROCESS_GROUP
    /\ pre[args.pid] # 0
    /\ \E i \in DOMAIN out : out[i].text \in NewCookieTexts
    /\ cookie[args.pid] = created

\* Launch mode of New and of Copy (a command follows the options)
LaunchNew ==
    /\ Accepted /\ args.exec # 0 /\ args.pid = 0
    /\ \/ line.prog = "coresched" /\ args.cmd = SCHED_CORE_CMD_NEW
       \/ line.prog = "coreset" /\ args.cmd = CORE_CREATE

LaunchCopy ==
    /\ Accepted /\ args.exec # 0 /\ args.dest = 0
    /\ \/ line.prog = "coresched" /\ args.cmd = SCHED_CORE_CMD_COPY
       \/ line.prog = "coreset" /\ args.cmd = CORE_COPY

\* C3: launch mode: the command runs in the controller's own task (no new
\* task) with the cookie that task held at the exec; when nobody else changes
\* a cookie that is the newly created non-zero cookie for New, and the cookie
\* the source held at the pull for Copy (0 when it had none).
C3_CommandInheritsCookie ==
    outcome = "exec" =>
        /\ image = "command"
        /\ envCount = 0 /\ LaunchNew =>
              /\ created # 0
              /\ cookie[Self] = created
        /\ envCount = 0 /\ LaunchCopy =>
              /\ pulled = pre[args.pid]
              /\ cookie[Self] = pulled

\* A command started by a launch-mode copy from a source whose cookie the
\* controller did not hold before
C3_Witness ==
    /\ outcome = "exec" /\ LaunchCopy /\ envCount = 0
    /\ pre[Self] # pre[args.pid]
    /\ cookie[Self] = pre[args.pid]

\* C4: an invocation of either program that ends with a usage error has
\* issued no prctl call and no exec, and has changed no cookie.
C4_UsageErrorBeforeKernel ==
    Rejected =>
        /\ calls = <<>>
        /\ image = line.prog
        /\ cookie = pre

\* A coresched invocation refused for its type argument, on a host where
\* tasks hold cookies
C4_Witness ==
    /\ Rejected
    /\ line.prog = "coresched" /\ line.type = "bogus"
    /\ cookie[Self] # 0

\* A request for COPY alone whose values are all in range
CopyRequest ==
    /\ line.copy /\ ~line.new /\ ~line.to
    /\ line.pid >= 0 /\ line.dest >= 0
    /\ line.type # "bogus"
    /\ line.scope \in Scopes

\* C5: a COPY request is accepted exactly when it names a source task and
\* exactly one of a destination task and a command; otherwise it is refused
\* as a usage error.
C5_CopyValidation ==
    (pc # "parse" /\ CopyRequest) =>
        /\ Accepted <=> (line.pid # 0 /\ ((line.dest # 0) # line.command))
        /\ ~Accepted => Rejected

\* A coresched COPY with a source, a destination and a command is refused
C5_Witness ==
    /\ CopyRequest /\ Rejected
    /\ line.prog = "coresched"
    /\ line.pid # 0 /\ line.dest # 0 /\ line.command

\* A request for NEW alone whose values are all in range
NewRequest ==
    /\ line.new /\ ~line.copy /\ ~line.to /\ ~line.destopt
    /\ line.pid >= 0
    /\ line.type # "bogus"
    /\ line.scope \in Scopes

\* C6 as claimed: in both programs a NEW request is accepted exactly when it
\* has exactly one of an existing task and a command, and is refused as a
\* usage error with no kernel call otherwise.
C6_NewExactlyOneEverywhere ==
    (pc # "parse" /\ NewRequest) =>
        /\ Accepted <=> ((line.pid # 0) # line.command)
        /\ ~Accepted => (Rejected /\ calls = <<>>)

\* C6 as amended: coresched accepts a NEW request exactly when it has
\* exactly one of an existing task and a command; coreset accepts it exactly
\* when it has at least one, and with both it creates the cookie on the task
\* and never executes the command.  A refused request is a usage error with
\* no kernel call.
C6_NewValidation ==
    (pc # "parse" /\ NewRequest) =>
        /\ line.prog = "coresched" =>
              (Accepted <=> ((line.pid # 0) # line.command))
        /\ line.prog = "coreset" =>
              /\ Accepted <=> (line.pid # 0 \/ line.command)
              /\ (line.pid # 0 /\ line.command) =>
                    /\ args.exec = 0
                    /\ image = "coreset"
                    /\ \A i \in DOMAIN calls :
                          calls[i].op = PR_SCHED_CORE_CREATE =>
                              calls[i].pid = line.pid
        /\ ~Accepted => (Rejected /\ calls = <<>>)

\* coreset --new -p PID COMMAND ran to its end: the cookie was created on
\* PID and the command was not executed
C6_Witness ==
    /\ NewRequest /\ line.prog = "coreset"
    /\ line.pid # 0 /\ line.command
    /\ pc = "done" /\ outcome = "success"
    /\ created # 0 /\ cookie[line.pid] = created

\* Number of command options on the command line
CommandFlags == BoolInt(line.new) + BoolInt(line.copy) + BoolInt(line.to)

\* C7: a request with more than one of the command options is refused as a
\* usage error; an accepted request selects the one command its option
\* names, and GET/Show when it has none.
C7_CommandExclusive ==
    pc # "parse" =>
        /\ CommandFlags > 1 => Rejected
        /\ Accepted =>
              /\ line.new <=> args.cmd \in {SCHED_CORE_CMD_NEW, CORE_CREATE}
              /\ line.copy <=> args.cmd \in {SCHED_CORE_CMD_COPY, CORE_COPY}
              /\ line.to <=> args.cmd = CORE_PUSH
              /\ CommandFlags = 0 <=> args.cmd \in {SCHED_CORE_CMD_GET, CORE_SHOW}

\* coreset --new --to -p PID COMMAND, in range otherwise, is refused
C7_Witness ==
    /\ Rejected /\ line.prog = "coreset"
    /\ line.new /\ line.to /\ ~line.copy
    /\ line.pid > 0 /\ line.command /\ line.scope \in Scopes

\* C8 as claimed: on a kernel without the feature every accepted invocation
\* ends as UnsupportedFeature, and the probe (a read of the controller's own
\* cookie) is the only kernel call.
C8_UnsupportedEverywhere ==
    (~supported /\ Accepted /\ pc = "done") =>
        /\ outcome = "unsupported"
        /\ calls = <<Call(PR_SCHED_CORE_GET, Self, PR_SCHED_CORE_SCOPE_THREAD,
                          "EINVAL")>>

\* C8 for coresched alone: it ends as UnsupportedFeature after the probe
C8_CoreschedUnsupported ==
    (~supported /\ Accepted /\ pc = "done" /\ line.prog = "coresched") =>
        /\ outcome = "unsupported"
        /\ exitCode = ENOTSUP
        /\ calls = <<Call(PR_SCHED_CORE_GET, Self, PR_SCHED_CORE_SCOPE_THREAD,
                          "EINVAL")>>

\* The four failure classes of the exit status
FailureClasses == {"usage", "unsupported", "kernel", "nocookie"}

\* The exit status each class ends with
ClassCode(class) ==
    IF class = "unsupported" THEN ENOTSUP
    ELSE IF class = "nocookie" THEN ENODATA
    ELSE IF class \in {"usage", "kernel"} THEN EXIT_FAILURE
    ELSE IF class = "execfail" THEN EX_EXEC_FAILED
    ELSE EXIT_SUCCESS

IsRead(i) ==
    /\ calls[i].op = PR_SCHED_CORE_GET
    /\ ~(line.prog = "coresched" /\ i = 1)

Count(S) == Cardinality(S)

\* Messages that report the result of a read that succeeded
ReadTexts ==
    {"cookie of pid is", "pid doesn't have a core scheduling cookie",
     "copied cookie from PID to PID", "set cookie of PID to",
     "pid's current cookie", "pid's new cookie"}

\* Messages that report a read that failed
ReadFailedTexts ==
    {"Failed to get cookie from PID", "failed to get pid's core scheduling cookie"}

\* C10: a read that fails ends the invocation as a kernel-call failure with
\* its own message and EXIT_FAILURE, and no cookie value is reported for it;
\* a read that succeeds is reported, and one that finds no cookie ends
\* coresched's Show with ENODATA and the "no cookie" message, and is shown as
\* value 0 by coreset, which goes on.
C10_NoCookieIsNotFailure ==
    /\ \A i \in DOMAIN calls :
          (IsRead(i) /\ calls[i].res # "ok") =>
              /\ i = Len(calls)
              /\ pc = "done" /\ outcome = "kernel" /\ exitCode = EXIT_FAILURE
              /\ out[Len(out)].text \in ReadFailedTexts
              /\ out[Len(out)].val = -1
    /\ Count({i \in DOMAIN calls : IsRead(i) /\ calls[i].res = "ok"})
          = Count({j \in DOMAIN out : out[j].text \in ReadTexts})
    /\ outcome = "nocookie" =>
          /\ exitCode = ENODATA
          /\ calls[Len(calls)].res = "ok"
          /\ cookie[args.pid] = 0

\* coresched's Show failed to read the cookie of a task that holds none
C10_Witness ==
    /\ line.prog = "coresched" /\ args.cmd = SCHED_CORE_CMD_GET
    /\ outcome = "kernel"
    /\ Len(calls) = 2 /\ calls[2].res = "EPERM"
    /\ cookie[args.pid] = 0

\* The command of the invocation is GET (coresched) or Show (coreset)
ShowCommand == Accepted /\ args.cmd \in {SCHED_CORE_CMD_GET, CORE_SHOW}

\* Positions at which the controller reads a cookie to report it, or probes
ReadPositions == {"probe", "get", "copied", "report", "get1", "get2"}

\* The step issues no kernel call, or exactly one call, and that is a GET
OnlyReadCall ==
    \/ calls' = calls
    \/ /\ Len(calls') = Len(calls) + 1
       /\ SubSeq(calls', 1, Len(calls)) = calls
       /\ calls'[Len(calls')].op = PR_SCHED_CORE_GET

\* C11: every step of an invocation whose command is GET/Show, and every
\* reporting step (the read before or after a mutation, the verbose re-read)
\* of any command, issues no kernel call but a GET and leaves the cookie of
\* every task as it is, whatever scope was given.
C11_ShowObservesOnly ==
    [][(ShowCommand \/ pc \in ReadPositions) =>
           (OnlyReadCall /\ cookie' = cookie)]_vars

\* Show of a task that holds a cookie, asked with process-group scope, ended
\* with only reads issued and every cookie as it was
C11_Witness ==
    /\ ShowCommand /\ outcome = "success"
    /\ args.type = PR_SCHED_CORE_SCOPE_PROCESS_GROUP
    /\ pre[Target(args.pid)] # 0
    /\ cookie = pre
    /\ calls # <<>>
    /\ \A i \in DOMAIN calls : calls[i].op = PR_SCHED_CORE_GET


\* A command line with no command option, no task identifier and no program,
\* whose scope (when given) is one of the three
BareShow ==
    /\ CommandFlags = 0
    /\ line.pid = 0 /\ ~line.destopt /\ ~line.command
    /\ line.type # "bogus" /\ line.scope \in Scopes

\* C12 as claimed: an invocation with no command option, no task identifier
\* and no program is not refused and does not print the help: it reads the
\* cookie of the invoking task, and a read that succeeds is printed with that
\* task's cookie.
C12_ShowWithoutTaskReadsSelf ==
    (BareShow /\ pc = "done") =>
        /\ outcome \notin {"usage", "help"}
        /\ \E i \in DOMAIN calls :
              IsRead(i) /\ Target(calls[i].pid) = Self
        /\ outcome = "success" =>
              \E j \in DOMAIN out :
                  /\ out[j].text \in ReadTexts
                  /\ out[j].val = cookie[Self]

\* What the programs do with such a command line: coresched prints its help
\* after the probe and ends with EXIT_SUCCESS, coreset refuses it as a usage
\* error; no cookie is read to be printed and none is printed.
C12_BareShowPrintsNoCookie ==
    (BareShow /\ pc = "done") =>
        /\ line.prog = "coresched" /\ supported => outcome = "help"
        /\ line.prog = "coreset" => outcome = "usage"
        /\ \A i \in DOMAIN calls : ~IsRead(i)
        /\ \A j \in DOMAIN out : out[j].text \notin ReadTexts


\* The prctl calls that create or push a cookie
IsCreateOrPush(i) ==
    calls[i].op \in {PR_SCHED_CORE_CREATE, PR_SCHED_CORE_SHARE_TO}

\* C13: a scope that is none of the three (coreset: an integer outside 0..2,
\* coresched: a string other than pid/tgid/pgid) and a negative task
\* identifier are refused as a usage error with no kernel call, so every
\* create and every push that is issued carries one of the three scopes and a
\* task identifier that is not negative.
C13_ScopeAndPidValidated ==
    pc # "parse" =>
        /\ (line.prog = "coreset" /\ line.scope \notin Scopes) => Rejected
        /\ (line.prog = "coresched" /\ line.type = "bogus") => Rejected
        /\ (line.pid < 0 \/ (line.destopt /\ line.dest < 0)) => Rejected
        /\ Rejected => calls = <<>>
        /\ \A i \in DOMAIN calls :
              IsCreateOrPush(i) =>
                  /\ calls[i].scope \in Scopes
                  /\ calls[i].pid >= 0

\* coreset --to -p PID -s 3 is refused with no kernel call
C13_Witness ==
    /\ Rejected /\ calls = <<>>
    /\ line.prog = "coreset"
    /\ line.to /\ ~line.new /\ ~line.copy
    /\ line.pid > 0
    /\ line.scope = PR_SCHED_CORE_SCOPE_PROCESS_GROUP + 1


\* Positions in the call log of the calls of one prctl option
CallsOf(op) == {i \in DOMAIN calls : calls[i].op = op}

\* The invocation ended at a read that failed before the copy began (the
\* probe on a kernel without the feature, coreset's first read)
EndedBeforeCopy ==
    /\ outcome \in {"unsupported", "kernel"}
    /\ calls[Len(calls)].op = PR_SCHED_CORE_GET
    /\ CallsOf(PR_SCHED_CORE_SHARE_FROM) = {}

\* C14: copy to an explicit destination issues at most one pull and at most
\* one push, a push only after a pull that succeeded, and a run that reached
\* the copy has issued exactly one pull when it ends; launch-mode copy issues
\* no push at all, and exactly one pull when it reached the copy.
C14_CopyOrdering ==
    /\ CopyToDest =>
          /\ Count(CallsOf(PR_SCHED_CORE_SHARE_FROM)) <= 1
          /\ Count(CallsOf(PR_SCHED_CORE_SHARE_TO)) <= 1
          /\ \A j \in CallsOf(PR_SCHED_CORE_SHARE_TO) :
                \E i \in CallsOf(PR_SCHED_CORE_SHARE_FROM) :
                    i < j /\ calls[i].res = "ok"
          /\ pc = "done" =>
                \/ Count(CallsOf(PR_SCHED_CORE_SHARE_FROM)) = 1
                \/ EndedBeforeCopy
    /\ LaunchCopy =>
          /\ Count(CallsOf(PR_SCHED_CORE_SHARE_FROM)) <= 1
          /\ CallsOf(PR_SCHED_CORE_SHARE_TO) = {}
          /\ pc = "done" =>
                \/ Count(CallsOf(PR_SCHED_CORE_SHARE_FROM)) = 1
                \/ EndedBeforeCopy

\* A copy to a destination whose pull succeeded and whose push was refused
C14_Witness ==
    /\ CopyToDest /\ pc = "done"
    /\ \E i \in CallsOf(PR_SCHED_CORE_SHARE_FROM),
          j \in CallsOf(PR_SCHED_CORE_SHARE_TO) :
          i < j /\ calls[i].res = "ok" /\ calls[j].res = "EPERM"


\* Copy to an explicit destination whose pull succeeded and whose push failed
HalfCopy ==
    /\ CopyToDest
    /\ \E i \in CallsOf(PR_SCHED_CORE_SHARE_FROM) : calls[i].res = "ok"
    /\ \E j \in CallsOf(PR_SCHED_CORE_SHARE_TO) : calls[j].res # "ok"

\* The half-completed copy ended in failure at the push: one pull, one push,
\* and nothing after the push
HalfCopyEndsAtPush ==
    /\ pc = "done" /\ outcome = "kernel" /\ exitCode # EXIT_SUCCESS
    /\ Count(CallsOf(PR_SCHED_CORE_SHARE_FROM)) = 1
    /\ Count(CallsOf(PR_SCHED_CORE_SHARE_TO)) = 1
    /\ calls[Len(calls)].op = PR_SCHED_CORE_SHARE_TO
    /\ image = line.prog

\* C15 as claimed: after a pull that succeeded and a push that failed the
\* invocation has ended in failure with no further call, the destination's
\* cookie is what it was before the invocation and the invoking task holds
\* the source's cookie.
C15_HalfCopyLeavesDestination ==
    HalfCopy =>
        /\ HalfCopyEndsAtPush
        /\ cookie[args.dest] = pre[args.dest]
        /\ cookie[Self] = pre[args.pid]

\* C15 as amended: as claimed, but the destination's cookie is what it was
\* before the invocation only when the destination is another task than the
\* invoking one; a destination that is the invoking task holds the source's
\* cookie, which the pull gave it.
C15_HalfCopy ==
    HalfCopy =>
        /\ HalfCopyEndsAtPush
        /\ cookie[Self] = pre[args.pid]
        /\ cookie[Self] = pulled
        /\ args.dest # Self => cookie[args.dest] = pre[args.dest]
        /\ args.dest = Self => cookie[args.dest] = pre[args.pid]
        /\ \A t \in Tasks \ {Self} : cookie[t] = pre[t]

\* The push to another task failed after the pull gave the controller a
\* cookie it did not hold before
C15_Witness ==
    /\ HalfCopy /\ pc = "done"
    /\ args.dest # Self /\ args.dest # args.pid
    /\ pre[Self] # pre[args.pid]
    /\ pre[args.dest] # pre[args.pid]
    /\ cookie[Self] = pre[args.pid]


\* The call at position i of the log failed
Failed(i) == calls[i].res # "ok"

\* The invocation ended in failure at call i: nothing was issued after it,
\* the exit status is not zero and no command was executed
EndedAt(i) ==
    /\ i = Len(calls)
    /\ pc = "done"
    /\ outcome \in FailureClasses
    /\ exitCode # EXIT_SUCCESS
    /\ image = line.prog

\* C16 as claimed: whenever a kernel call of the controller fails (the probe
\* included), the invocation ends there with a non-zero exit status: the call
\* is not issued again, and no later kernel call and no exec follows.
C16_NoErrorSwallowed ==
    \A i \in DOMAIN calls : Failed(i) => EndedAt(i)

\* What holds of the code: every failed call but coresched's probe ends the
\* invocation there, and so does a probe that fails with EINVAL; a probe that
\* fails otherwise is taken as success.
C16_OnlyProbeSwallowed ==
    \A i \in DOMAIN calls :
        (Failed(i) /\ (IsRead(i) \/ calls[i].op # PR_SCHED_CORE_GET
                       \/ calls[i].res = "EINVAL"))
            => EndedAt(i)


\* The call that sets the controller's cookie in launch mode
LaunchOp == IF LaunchNew THEN PR_SCHED_CORE_CREATE ELSE PR_SCHED_CORE_SHARE_FROM

\* The three ways an invocation ends
NormalExit ==
    outcome \in {"success", "help"} /\ exitCode = EXIT_SUCCESS /\ image = line.prog

ErrorExit ==
    /\ outcome \in FailureClasses \cup {"execfail"}
    /\ exitCode \notin {EXIT_SUCCESS, -1}
    /\ image = line.prog

Executed == outcome = "exec" /\ exitCode = -1 /\ image = "command"

\* In launch mode the execvp() is reached only after the create or the pull
\* succeeded, and a create or pull that failed ended the invocation without
\* the command; an accepted invocation that ended did so in exactly one way.
LaunchOrderingState ==
    /\ (LaunchNew \/ LaunchCopy) =>
          /\ (pc = "exec" \/ outcome \in {"exec", "execfail"}) =>
                Succeeded(LaunchOp)
          /\ (\E i \in CallsOf(LaunchOp) : Failed(i)) =>
                /\ pc = "done" /\ ErrorExit
                /\ Failed(Len(calls))
    /\ image = "command" => Executed
    /\ (Accepted /\ pc = "done") =>
          BoolInt(NormalExit) + BoolInt(ErrorExit) + BoolInt(Executed) = 1

\* The execvp() is the controller's last step: it ends the invocation, and
\* issues no kernel call and changes no cookie
ExecIsLast ==
    pc = "exec" => (pc' = "done" /\ calls' = calls /\ cookie' = cookie)

\* C17: launch mode: the command is executed only after the create (New) or
\* the pull (Copy) succeeded, never when it failed, and the exec is the last
\* step of the controller; every accepted invocation ends in exactly one of
\* normal exit, error exit and exec.
C17_LaunchOrdering == [](LaunchOrderingState) /\ [][ExecIsLast]_vars

\* A verbose launch-mode New whose create and re-read succeeded executed the
\* command
C17_Witness ==
    /\ LaunchNew /\ line.verbose /\ Executed
    /\ Succeeded(PR_SCHED_CORE_CREATE)
    /\ cookie[Self] = created


\* Create or Copy, in either mode and either program
CreateOrCopy == NewOnTask \/ LaunchNew \/ CopyToDest \/ LaunchCopy

\* The task whose cookie a Create or Copy is to set: the target of New, the
\* destination of Copy, the controller's own task in launch mode
MutatedTask ==
    IF NewOnTask THEN args.pid
    ELSE IF CopyToDest THEN args.dest
    ELSE Self

\* The last call of the Create or Copy: the create, the push, or the
\* launch-mode pull
MutationOp ==
    IF NewOnTask \/ LaunchNew THEN PR_SCHED_CORE_CREATE
    ELSE IF CopyToDest THEN PR_SCHED_CORE_SHARE_TO
    ELSE PR_SCHED_CORE_SHARE_FROM

\* Messages that report the cookie read after a Create or Copy
AfterTexts ==
    {"set cookie of PID to", "copied cookie from PID to PID", "pid's new cookie"}

\* C18 as claimed: after a Create or Copy that succeeded, every read that
\* follows it is a read of the mutated task, and the value reported is that
\* task's cookie, labelled with that task's identifier.
C18_ReportsMutatedTask ==
    (CreateOrCopy /\ Succeeded(MutationOp)) =>
        /\ \A i, k \in DOMAIN calls :
              (calls[i].op = MutationOp /\ i < k) =>
                  /\ calls[k].op = PR_SCHED_CORE_GET
                  /\ Target(calls[k].pid) = MutatedTask
        /\ \A j \in DOMAIN out :
              out[j].text \in AfterTexts =>
                  /\ out[j].pid = MutatedTask
                  /\ out[j].val = cookie[MutatedTask]

\* What holds of the code while nobody else changes a cookie: the value
\* reported after a Create or Copy that succeeded equals the mutated task's
\* cookie, and New reads and names the mutated task.
C18_ReportedValueIsMutatedCookie ==
    (CreateOrCopy /\ Succeeded(MutationOp)) =>
        \A j \in DOMAIN out :
            out[j].text \in AfterTexts =>
                /\ out[j].val = cookie[MutatedTask]
                /\ (NewOnTask \/ LaunchNew) => out[j].pid = MutatedTask


\* A step of launch-mode Copy that reports the cookie read after the pull
LaunchCopyReport ==
    /\ LaunchCopy
    /\ Succeeded(PR_SCHED_CORE_SHARE_FROM)
    /\ Len(out') = Len(out) + 1
    /\ out'[Len(out')].text \in AfterTexts

\* C19 as claimed: the value launch-mode Copy reports between the pull and
\* the exec is the cookie the controller's own task holds since the pull,
\* whatever another party did to the source's cookie since then.
C19_LaunchCopyReportsOwnCookie ==
    [][(LaunchCopyReport /\ cookie[Self] = pulled) =>
           out'[Len(out')].val = cookie[Self]]_vars

\* What holds of the code: coreset reports the cookie of the current task,
\* coresched the cookie the source holds at the time of the report.
C19_ReportedCookie ==
    [][LaunchCopyReport =>
          out'[Len(out')].val = IF line.prog = "coreset" THEN cookie[Self]
                                ELSE cookie[args.pid]]_vars


\* The scope the command line asks for: coresched's -t string, tgid when
\* there is none; coreset's -s number, 0 (THREAD) when there is none
RequestedScope ==
    IF line.prog = "coreset" THEN line.scope
    ELSE IF line.type = "pid" THEN PR_SCHED_CORE_SCOPE_THREAD
    ELSE IF line.type = "pgid" THEN PR_SCHED_CORE_SCOPE_PROCESS_GROUP
    ELSE PR_SCHED_CORE_SCOPE_THREAD_GROUP

\* C20: after New on an existing task t succeeded (nobody else changing a
\* cookie), the create was issued on t with the requested scope, THREAD_GROUP
\* (coresched) or THREAD (coreset) when none was given; every task of t's
\* group of that scope holds the one new cookie, which no task held before,
\* and every other task holds the cookie it had before.
C20_NewScope ==
    (NewOnTask /\ Succeeded(PR_SCHED_CORE_CREATE)) =>
        /\ \A i \in CallsOf(PR_SCHED_CORE_CREATE) :
              /\ calls[i].pid = line.pid
              /\ calls[i].scope = RequestedScope
        /\ created # 0
        /\ \A u \in Tasks :
              /\ pre[u] # created
              /\ u \in ScopeGroup(line.pid, RequestedScope) => cookie[u] = created
              /\ u \notin ScopeGroup(line.pid, RequestedScope) => cookie[u] = pre[u]

\* coresched --new -p 2 without -t: task 2 and its thread 3 hold the new
\* cookie, and the controller, which is of the same process group, keeps the
\* cookie it had
C20_Witness ==
    /\ NewOnTask /\ line.prog = "coresched" /\ line.type = Unset
    /\ outcome = "success"
    /\ line.pid = 2
    /\ cookie[2] = created /\ cookie[3] = created
    /\ pre[Self] # 0 /\ cookie[Self] = pre[Self]


\* A prctl request without its answer: the option, the pid and the scope
Request(op, pid, scope) == [op |-> op, pid |-> pid, scope |-> scope]

ReadOf(pid) == Request(PR_SCHED_CORE_GET, pid, PR_SCHED_CORE_SCOPE_THREAD)

\* The requests an accepted command line leads to when every call succeeds,
\* written from the command line alone: no cookie value enters it
CoreschedPlan ==
    <<ReadOf(Self)>> \o
    (IF ~line.new /\ ~line.copy
     THEN IF line.pid # 0 THEN <<ReadOf(line.pid)>> ELSE <<>>
     ELSE IF line.new
     THEN <<Request(PR_SCHED_CORE_CREATE,
                    IF line.pid # 0 THEN line.pid ELSE Self, RequestedScope)>>
          \o (IF line.verbose
              THEN <<ReadOf(IF line.pid # 0 THEN line.pid ELSE Self)>>
              ELSE <<>>)
     ELSE <<Request(PR_SCHED_CORE_SHARE_FROM, line.pid,
                    PR_SCHED_CORE_SCOPE_THREAD)>>
          \o (IF line.dest # 0
              THEN <<Request(PR_SCHED_CORE_SHARE_TO, line.dest, RequestedScope)>>
              ELSE <<>>)
          \o (IF line.verbose THEN <<ReadOf(line.pid)>> ELSE <<>>))

CoresetPlan ==
    LET first == ReadOf(IF line.copy THEN 0 ELSE line.pid) IN
    IF line.new
    THEN <<first, Request(PR_SCHED_CORE_CREATE, line.pid, line.scope), first>>
    ELSE IF line.copy
    THEN <<first, Request(PR_SCHED_CORE_SHARE_FROM, line.pid,
                          PR_SCHED_CORE_SCOPE_THREAD), first>>
    ELSE IF line.to
    THEN <<first, Request(PR_SCHED_CORE_SHARE_TO, line.pid, line.scope), first>>
    ELSE <<first>>

Plan == IF line.prog = "coresched" THEN CoreschedPlan ELSE CoresetPlan

\* The failure of call i ends the invocation: every failure but a failure of
\* coresched's probe with another errno than EINVAL
Fatal(i) == Failed(i) /\ (IsRead(i) \/ calls[i].op # PR_SCHED_CORE_GET
                          \/ calls[i].res = "EINVAL")

\* C21: the requests an invocation issues are the plan of its command line
\* up to the first fatal failure: each call's option, pid and scope, and
\* whether a further call follows, are fixed by the command line and the
\* kernel's answers (success or errno) and by no cookie value, so two runs of
\* one request on hosts that differ in the tasks' cookies only issue the same
\* calls.
C21_CallsIndependentOfCookies ==
    Accepted =>
        /\ Len(calls) <= Len(Plan)
        /\ \A i \in DOMAIN calls :
              /\ Request(calls[i].op, calls[i].pid, calls[i].scope) = Plan[i]
              /\ Fatal(i) => (i = Len(calls) /\ pc = "done")
        /\ pc = "done" =>
              \/ Len(calls) = Len(Plan)
              \/ Fatal(Len(calls))

\* Show of a task without a cookie and Show of a task with one have both
\* ended after the same two requests; the cookie read decided the exit only
C21_Witness ==
    /\ line.prog = "coresched" /\ ShowCommand /\ pc = "done"
    /\ outcome = "nocookie"
    /\ Len(calls) = 2 /\ Len(Plan) = 2
    /\ \E t \in Tasks : cookie[t] # 0


\* C22 as claimed: no invocation issues more than two prctl calls.
C22_AtMostTwoCalls == Len(calls) <= 2

\* C22 as amended: coreset issues at most three prctl calls (read, create or
\* pull or push, re-read) and one for Show; coresched issues at most four
\* (probe, pull, push, verbose re-read): at most two for Show, and for New
\* and launch-mode Copy two without --verbose and three with it, and for Copy
\* to a destination three without --verbose and four with it.
C22_CallBound ==
    /\ line.prog = "coreset" =>
          /\ Len(calls) <= 3
          /\ ShowCommand => Len(calls) <= 1
    /\ line.prog = "coresched" =>
          /\ Len(calls) <= 4
          /\ ShowCommand => Len(calls) <= 2
          /\ (NewOnTask \/ LaunchNew \/ LaunchCopy) =>
                Len(calls) <= 2 + BoolInt(line.verbose)
          /\ CopyToDest => Len(calls) <= 3 + BoolInt(line.verbose)

\* A verbose coresched copy to a destination ended after four calls
C22_Witness ==
    /\ CopyToDest /\ line.verbose
    /\ outcome = "success"
    /\ Len(calls) = 4


\* The tasks a copy to a destination may give a cookie: the destination's
\* group of the requested scope, and the controller, which the pull targets
CopyFrame == ScopeGroup(line.dest, RequestedScope) \cup {Self}

\* C23: after a coresched copy to an explicit destination succeeded (nobody
\* else changing a cookie), every task of the destination's scope group and
\* the controller hold the cookie the source had, and the source and every
\* other task hold the cookie they had before.
C23_CopyFrame ==
    (CopyToDest /\ Succeeded(PR_SCHED_CORE_SHARE_TO)) =>
        /\ \A u \in Tasks :
              /\ u \in CopyFrame => cookie[u] = pre[line.pid]
              /\ u \notin CopyFrame => cookie[u] = pre[u]
        /\ cookie[line.pid] = pre[line.pid]

\* A copy from task 3 to task 2 alone gave the controller and task 2 the
\* cookie of task 3, which neither held before
C23_Witness ==
    /\ CopyToDest /\ outcome = "success"
    /\ line.pid = 3 /\ line.dest = 2
    /\ RequestedScope = PR_SCHED_CORE_SCOPE_THREAD
    /\ pre[3] # pre[2] /\ pre[3] # pre[Self]
    /\ cookie[2] = pre[3] /\ cookie[Self] = pre[3] /\ cookie[3] = pre[3]


\* C24: in launch-mode Copy of either program every pull is issued with
\* scope THREAD whatever scope was given, no push and no create is issued,
\* and (nobody else changing a cookie) every task but the controller holds
\* the cookie it had before, while the controller holds the source's after a
\* pull that succeeded: a final state in which the scope does not occur.
C24_LaunchCopyScopeInert ==
    LaunchCopy =>
        /\ \A i \in DOMAIN calls :
              /\ calls[i].op \in {PR_SCHED_CORE_GET, PR_SCHED_CORE_SHARE_FROM}
              /\ calls[i].scope = PR_SCHED_CORE_SCOPE_THREAD
        /\ \A u \in Tasks \ {Self} : cookie[u] = pre[u]
        /\ cookie[Self] = IF Succeeded(PR_SCHED_CORE_SHARE_FROM)
                          THEN pre[line.pid] ELSE pre[Self]

\* coreset -c -s 2 -p 2 COMMAND executed the command: the controller alone
\* changed its cookie, the other tasks of its process group did not
C24_Witness ==
    /\ LaunchCopy /\ line.prog = "coreset" /\ Executed
    /\ RequestedScope = PR_SCHED_CORE_SCOPE_PROCESS_GROUP
    /\ line.pid = 2
    /\ pre[Self] # pre[2] /\ pre[3] # pre[2]
    /\ cookie[Self] = pre[2] /\ cookie[3] = pre[3]


\* An accepted coreset invocation
CoresetRun == line.prog = "coreset" /\ Accepted

\* The task coreset reads: its own for --copy and without -p, else the pid
CoresetReadTask == IF line.copy \/ line.pid = 0 THEN Self ELSE line.pid

\* Call i is a read of that task
IsCoresetRead(i) ==
    /\ calls[i].op = PR_SCHED_CORE_GET
    /\ Target(calls[i].pid) = CoresetReadTask

\* The mutating option of the command line's command
CoresetMutation ==
    IF line.new THEN PR_SCHED_CORE_CREATE
    ELSE IF line.copy THEN PR_SCHED_CORE_SHARE_FROM
    ELSE PR_SCHED_CORE_SHARE_TO

\* The number of calls of a coreset invocation in which all succeed
CoresetCalls == IF CommandFlags = 0 THEN 1 ELSE 3

\* C25: an accepted coreset invocation first reads the cookie (its own task's
\* for --copy, else the given pid's or its own); Show issues no further call;
\* --new, --copy and --to issue one mutating call on the given pid and then
\* one re-read of the task read first; each call is issued only after the one
\* before it succeeded, and the command, when one is kept, is executed only
\* after all of them succeeded.
C25_CoresetCallSequence ==
    CoresetRun =>
        /\ pc # "get1" => calls # <<>>
        /\ Len(calls) <= CoresetCalls
        /\ \A i \in DOMAIN calls :
              /\ i \in {1, 3} => IsCoresetRead(i)
              /\ i = 2 => /\ calls[i].op = CoresetMutation
                          /\ calls[i].pid = line.pid
              /\ i < Len(calls) => calls[i].res = "ok"
        /\ (pc = "exec" \/ outcome \in {"exec", "execfail", "success"}) =>
              /\ Len(calls) = CoresetCalls
              /\ \A i \in DOMAIN calls : calls[i].res = "ok"
        /\ (pc = "exec" \/ outcome \in {"exec", "execfail"}) => args.exec # 0

\* coreset -t -p 2 COMMAND executed the command after read, push and re-read
C25_Witness ==
    /\ CoresetRun /\ line.to /\ line.pid = 2
    /\ Executed
    /\ Len(calls) = 3
    /\ calls[2].op = PR_SCHED_CORE_SHARE_TO

=============================================================================
